---------------------------- MODULE Spec2Model ----------------------------
(***************************************************************************)
(* Render Workflows python template (main.py): the module script that      *)
(* configures logging, constructs the Workflows application, registers     *)
(* four tasks and is then served, and the four task bodies (ping, hello,   *)
(* square and the fan-out/join composition sum_squares).                   *)
(***************************************************************************)
EXTENDS Integers, Sequences, FiniteSets, TLC

(* Bounds of the model *)
MaxInvocations == 2
Workers == {"w1", "w2"}
SquareInputs == {-2, 0, 3, 4, 5}
SumSquaresInputs == {-2, 3, 4}
Names == {"world", ""}

(* Retry(max_retries=3, wait_duration_ms=1000, backoff_scaling=2.0), default_timeout=300 *)
MaxRetries == 3
WaitDurationMs == 1000
BackoffScaling == 2
DefaultTimeout == 300

VARIABLES
    pc,       \* position of the module script (top-level statements of main.py)
    logging,  \* levels set by the logging configuration
    app,      \* the Workflows application object, NoApp before construction
    tasks,    \* task names registered with app, in registration order
    serving,  \* TRUE once the auto-start has begun serving
    invoked,  \* number of task invocations the runtime has started
    runs      \* runs[w]: the task invocation worker w is executing

vars == <<pc, logging, app, tasks, serving, invoked, runs>>

NoApp == [constructed |-> FALSE]
NoLogging == [root |-> "NOTSET", logger |-> "NOTSET"]

AppConfig ==
    [constructed |-> TRUE,
     default_retry |-> [max_retries |-> MaxRetries,
                        wait_duration_ms |-> WaitDurationMs,
                        backoff_scaling |-> BackoffScaling],
     default_timeout |-> DefaultTimeout,
     default_plan |-> "standard",
     auto_start |-> TRUE]

(* Positional argument lists the operator tooling may pass to each task *)
ArgsOf(task) ==
    CASE task = "ping" -> {<<>>}
      [] task = "hello" -> {<<n>> : n \in Names}
      [] task = "square" -> {<<a>> : a \in SquareInputs}
      [] task = "sum_squares" -> {<<a, b>> : a \in SumSquaresInputs, b \in SumSquaresInputs}

(* An optional value: <<>> is None, <<v>> is the value v *)
None == <<>>
Some(v) == <<v>>

Idle ==
    [task |-> "none", args |-> <<>>, status |-> "idle", subs |-> <<>>,
     order |-> <<>>, result1 |-> None, result2 |-> None, result |-> None,
     log |-> <<>>]

NewRun(task, args) ==
    [Idle EXCEPT !.task = task, !.args = args, !.status = "running"]

(* A sub-invocation of square issued from inside a running task *)
NewSub(a) == [arg |-> a, status |-> "pending", result |-> None]

----------------------------------------------------------------------------
(* Task bodies as pure functions *)

PingEcho == "ping"

Ping == "pong"

Greeting(name) == "Greeting " \o name

HelloNoBang(name) == "Hello, " \o name

Hello(name) == "Hello, " \o name \o "!"

SquareDoubles(a) == a + a

Square(a) == a * a

SumResultsFirstTwice(result1, result2) == result1 + result1

(* result1 + result2 *)
SumResults(result1, result2) == result1 + result2

(* The results in the order in which the awaitables completed *)
GatherResultsAsCompleted(subs, order) ==
    [i \in 1..Len(subs) |-> subs[order[i]].result[1]]

(* asyncio.gather: the results in the order of the awaitables passed *)
GatherResults(subs, order) == [i \in 1..Len(subs) |-> subs[i].result[1]]

(* asyncio.gather resolves once every awaitable has completed *)
GatherDone(subs) == \A i \in 1..Len(subs) : subs[i].status = "done"

(* asyncio.gather raises as soon as one awaitable has raised *)
GatherRaised(subs) == \E i \in 1..Len(subs) : subs[i].status = "failed"

----------------------------------------------------------------------------
(* The module script *)

Init ==
    /\ pc = "logging"
    /\ logging = NoLogging
    /\ app = NoApp
    /\ tasks = <<>>
    /\ serving = FALSE
    /\ invoked = 0
    /\ runs = [w \in Workers |-> Idle]

ConfigureLogging ==
    /\ pc = "logging"
    /\ logging' = [root |-> "WARNING", logger |-> "INFO"]
    /\ pc' = "construct"
    /\ UNCHANGED <<app, tasks, serving, invoked, runs>>

ConstructApp ==
    /\ pc = "construct"
    /\ app' = AppConfig
    /\ pc' = "register_ping"
    /\ UNCHANGED <<logging, tasks, serving, invoked, runs>>

(* @app.task: the decorator is a method of app, so app must exist *)
Register(at, name, next) ==
    /\ pc = at
    /\ app.constructed
    /\ tasks' = Append(tasks, name)
    /\ pc' = next
    /\ UNCHANGED <<logging, app, serving, invoked, runs>>

RegisterPing == Register("register_ping", "ping", "register_hello")

RegisterHello == Register("register_hello", "hello", "register_square")

RegisterSquare == Register("register_square", "square", "register_sum_squares")

RegisterSumSquares == Register("register_sum_squares", "sum_squares", "auto_start")

(* Serving begins as soon as the application object exists *)
AutoStartEager ==
    /\ pc \notin {"logging", "construct", "serving"}
    /\ app.constructed /\ app.auto_start
    /\ ~serving
    /\ serving' = TRUE
    /\ pc' = IF pc = "auto_start" THEN "serving" ELSE pc
    /\ UNCHANGED <<logging, app, tasks, invoked, runs>>

(* The script has run to its end: auto_start=True begins serving *)
AutoStart ==
    /\ pc = "auto_start"
    /\ app.constructed /\ app.auto_start
    /\ serving' = TRUE
    /\ pc' = "serving"
    /\ UNCHANGED <<logging, app, tasks, invoked, runs>>

----------------------------------------------------------------------------
(* Task invocations *)

(* logger.info: the record is emitted when the logger's level admits INFO *)
LoggerInfo(log, msg) ==
    IF logging.logger \in {"DEBUG", "INFO"} THEN Append(log, msg) ELSE log

Registered(task) == \E i \in 1..Len(tasks) : tasks[i] = task

(* The runtime starts a registered task by name with positional arguments *)
Invoke(w, task, args) ==
    /\ serving
    /\ Registered(task)
    /\ invoked < MaxInvocations
    /\ runs[w].status = "idle"
    /\ runs' = [runs EXCEPT ![w] = NewRun(task, args)]
    /\ invoked' = invoked + 1
    /\ UNCHANGED <<pc, logging, app, tasks, serving>>

PingRun(w) ==
    /\ runs[w].task = "ping" /\ runs[w].status = "running"
    /\ runs' = [runs EXCEPT ![w].status = "done", ![w].result = Some(Ping)]
    /\ UNCHANGED <<pc, logging, app, tasks, serving, invoked>>

(* hello keeping the last name greeted in the application object *)
HelloRunRemembers(w) ==
    /\ runs[w].task = "hello" /\ runs[w].status = "running"
    /\ runs' = [runs EXCEPT ![w].status = "done",
                            ![w].log = LoggerInfo(@, Greeting(runs[w].args[1])),
                            ![w].result = Some(Hello(runs[w].args[1]))]
    /\ app' = [app EXCEPT !.default_plan = runs[w].args[1]]
    /\ UNCHANGED <<pc, logging, tasks, serving, invoked>>

HelloRun(w) ==
    /\ runs[w].task = "hello" /\ runs[w].status = "running"
    /\ runs' = [runs EXCEPT ![w].status = "done",
                            ![w].log = LoggerInfo(@, Greeting(runs[w].args[1])),
                            ![w].result = Some(Hello(runs[w].args[1]))]
    /\ UNCHANGED <<pc, logging, app, tasks, serving, invoked>>

SquareRun(w) ==
    /\ runs[w].task = "square" /\ runs[w].status = "running"
    /\ runs' = [runs EXCEPT ![w].status = "done",
                            ![w].result = Some(Square(runs[w].args[1]))]
    /\ UNCHANGED <<pc, logging, app, tasks, serving, invoked>>

(* square(a): the first sub-invocation is issued *)
SumSquaresCallA(w) ==
    /\ runs[w].task = "sum_squares" /\ runs[w].status = "running"
    /\ Len(runs[w].subs) = 0
    /\ runs' = [runs EXCEPT ![w].subs = Append(@, NewSub(runs[w].args[1]))]
    /\ UNCHANGED <<pc, logging, app, tasks, serving, invoked>>

(* The second call passes a again *)
SumSquaresCallBRepeatsA(w) ==
    /\ runs[w].task = "sum_squares" /\ runs[w].status = "running"
    /\ Len(runs[w].subs) = 1
    /\ runs' = [runs EXCEPT ![w].subs = Append(@, NewSub(runs[w].args[1]))]
    /\ UNCHANGED <<pc, logging, app, tasks, serving, invoked>>

(* square(b): the second sub-invocation is issued *)
SumSquaresCallB(w) ==
    /\ runs[w].task = "sum_squares" /\ runs[w].status = "running"
    /\ Len(runs[w].subs) = 1
    /\ runs' = [runs EXCEPT ![w].subs = Append(@, NewSub(runs[w].args[2]))]
    /\ UNCHANGED <<pc, logging, app, tasks, serving, invoked>>

(* The task awaits right after the first call *)
SumSquaresAwaitAfterFirst(w) ==
    /\ runs[w].task = "sum_squares" /\ runs[w].status = "running"
    /\ Len(runs[w].subs) >= 1
    /\ runs' = [runs EXCEPT ![w].status = "awaiting"]
    /\ UNCHANGED <<pc, logging, app, tasks, serving, invoked>>

(* await asyncio.gather(...): the task suspends at the join *)
SumSquaresAwait(w) ==
    /\ runs[w].task = "sum_squares" /\ runs[w].status = "running"
    /\ Len(runs[w].subs) = 2
    /\ runs' = [runs EXCEPT ![w].status = "awaiting"]
    /\ UNCHANGED <<pc, logging, app, tasks, serving, invoked>>

(* A pending sub-invocation of square completes with its result *)
SubComplete(w, i) ==
    /\ runs[w].status \in {"awaiting", "failed"}
    /\ i \in 1..Len(runs[w].subs)
    /\ runs[w].subs[i].status = "pending"
    /\ runs' = [runs EXCEPT ![w].subs[i].status = "done",
                            ![w].subs[i].result = Some(Square(runs[w].subs[i].arg)),
                            ![w].order = Append(@, i)]
    /\ UNCHANGED <<pc, logging, app, tasks, serving, invoked>>

(* A pending sub-invocation fails: its awaitable raises *)
SubFail(w, i) ==
    /\ runs[w].status \in {"awaiting", "failed"}
    /\ i \in 1..Len(runs[w].subs)
    /\ runs[w].subs[i].status = "pending"
    /\ runs' = [runs EXCEPT ![w].subs[i].status = "failed",
                            ![w].order = Append(@, i)]
    /\ UNCHANGED <<pc, logging, app, tasks, serving, invoked>>

(* The join resolves: result1, result2 are unpacked and their sum returned *)
SumSquaresReturn(w) ==
    /\ runs[w].task = "sum_squares" /\ runs[w].status = "awaiting"
    /\ GatherDone(runs[w].subs)
    /\ LET res == GatherResults(runs[w].subs, runs[w].order)
       IN runs' = [runs EXCEPT ![w].status = "done",
                               ![w].result1 = Some(res[1]),
                               ![w].result2 = Some(res[2]),
                               ![w].result = Some(SumResults(res[1], res[2]))]
    /\ UNCHANGED <<pc, logging, app, tasks, serving, invoked>>

(* The join raises and the body answers 0 instead *)
SumSquaresSwallow(w) ==
    /\ runs[w].task = "sum_squares" /\ runs[w].status = "awaiting"
    /\ GatherRaised(runs[w].subs)
    /\ runs' = [runs EXCEPT ![w].status = "done", ![w].result = Some(0)]
    /\ UNCHANGED <<pc, logging, app, tasks, serving, invoked>>

(* The join raises: no handler in the body, the invocation fails *)
SumSquaresRaise(w) ==
    /\ runs[w].task = "sum_squares" /\ runs[w].status = "awaiting"
    /\ GatherRaised(runs[w].subs)
    /\ runs' = [runs EXCEPT ![w].status = "failed"]
    /\ UNCHANGED <<pc, logging, app, tasks, serving, invoked>>

(* The runtime hands the outcome to the caller and the worker is free again *)
Deliver(w) ==
    /\ runs[w].status \in {"done", "failed"}
    /\ runs' = [runs EXCEPT ![w] = Idle]
    /\ UNCHANGED <<pc, logging, app, tasks, serving, invoked>>

Next ==
    \/ ConfigureLogging
    \/ ConstructApp
    \/ RegisterPing
    \/ RegisterHello
    \/ RegisterSquare
    \/ RegisterSumSquares
    \/ AutoStart
    \/ \E w \in Workers : \E t \in {"ping", "hello", "square", "sum_squares"} :
          \E args \in ArgsOf(t) : Invoke(w, t, args)
    \/ \E w \in Workers : PingRun(w)
    \/ \E w \in Workers : HelloRun(w)
    \/ \E w \in Workers : SquareRun(w)
    \/ \E w \in Workers : SumSquaresCallA(w)
    \/ \E w \in Workers : SumSquaresCallB(w)
    \/ \E w \in Workers : SumSquaresAwait(w)
    \/ \E w \in Workers : \E i \in 1..2 : SubComplete(w, i)
    \/ \E w \in Workers : \E i \in 1..2 : SubFail(w, i)
    \/ \E w \in Workers : SumSquaresReturn(w)
    \/ \E w \in Workers : SumSquaresRaise(w)
    \/ \E w \in Workers : Deliver(w)

Spec == Init /\ [][Next]_vars

(* The event loop resumes a task whose join has resolved or raised *)
FairSpec ==
    /\ Spec
    /\ \A w \in Workers : WF_vars(SumSquaresReturn(w))
    /\ \A w \in Workers : WF_vars(SumSquaresRaise(w))

----------------------------------------------------------------------------
(* Properties *)

IsRun(w, task, status) == runs[w].task = task /\ runs[w].status = status

(* C1: a sum_squares(a, b) invocation that completes returns a*a + b*b *)
C1_SumOfSquares ==
    \A w \in Workers :
        IsRun(w, "sum_squares", "done") =>
            runs[w].result = <<runs[w].args[1] * runs[w].args[1]
                               + runs[w].args[2] * runs[w].args[2]>>

C1_Witness ==
    \E w \in Workers :
        /\ IsRun(w, "sum_squares", "done")
        /\ runs[w].args = <<3, 4>>
        /\ runs[w].result = <<25>>

C3_OrderIndependent ==
    \A w \in Workers :
        IsRun(w, "sum_squares", "done") =>
            /\ runs[w].order \in {<<1, 2>>, <<2, 1>>}
            /\ runs[w].result1 = <<runs[w].args[1] * runs[w].args[1]>>
            /\ runs[w].result2 = <<runs[w].args[2] * runs[w].args[2]>>
            /\ runs[w].result = <<runs[w].result1[1] + runs[w].result2[1]>>

C3_Witness ==
    \E w \in Workers :
        /\ IsRun(w, "sum_squares", "done")
        /\ runs[w].order = <<2, 1>>
        /\ runs[w].args = <<3, 4>>
        /\ runs[w].result1 = <<9>>
        /\ runs[w].result2 = <<16>>

(* C4: a ping invocation that has run yields "pong", whatever was invoked   *)
(* before it and whatever the other worker is doing                         *)
C4_PingPong ==
    \A w \in Workers :
        /\ IsRun(w, "ping", "done") => runs[w].result = <<"pong">>
        /\ runs[w].task = "ping" => runs[w].status \in {"running", "done"}

C4_Witness ==
    \E w \in Workers :
        /\ IsRun(w, "ping", "done")
        /\ runs[w].result = <<"pong">>
        /\ invoked = MaxInvocations
        /\ \A v \in Workers : runs[v].status = "done"

(* C5: hello(name) returns "Hello, " + name + "!" *)
C5_Hello ==
    \A w \in Workers :
        IsRun(w, "hello", "done") =>
            runs[w].result = <<"Hello, " \o runs[w].args[1] \o "!">>

C5_Witness ==
    \E w \in Workers :
        /\ IsRun(w, "hello", "done")
        /\ runs[w].args = <<"world">>
        /\ runs[w].result = <<"Hello, world!">>

(* C6: square(a) returns a multiplied by itself, as a task of its own and   *)
(* as a sub-invocation                                                      *)
C6_Square ==
    \A w \in Workers :
        /\ IsRun(w, "square", "done") =>
               runs[w].result = <<runs[w].args[1] * runs[w].args[1]>>
        /\ \A i \in 1..Len(runs[w].subs) :
               runs[w].subs[i].status = "done" =>
                   runs[w].subs[i].result = <<runs[w].subs[i].arg * runs[w].subs[i].arg>>

C6_Witness ==
    \E w \in Workers :
        /\ IsRun(w, "square", "done")
        /\ runs[w].args = <<5>>
        /\ runs[w].result = <<25>>

(* C7: a failed sub-invocation is never caught or defaulted: sum_squares    *)
(* with a failed sub-invocation never completes and never has a result, it  *)
(* fails only because a sub-invocation failed, and once a sub-invocation    *)
(* has failed at the join the invocation ends in failure                    *)
C7_FailurePropagates ==
    /\ [](\A w \in Workers :
              runs[w].task = "sum_squares" =>
                  /\ (\E i \in 1..Len(runs[w].subs) : runs[w].subs[i].status = "failed") =>
                         /\ runs[w].status \in {"awaiting", "failed"}
                         /\ runs[w].result = <<>>
                         /\ runs[w].result1 = <<>> /\ runs[w].result2 = <<>>
                  /\ runs[w].status = "failed" =>
                         \E i \in 1..Len(runs[w].subs) : runs[w].subs[i].status = "failed")
    /\ \A w \in Workers :
           (/\ IsRun(w, "sum_squares", "awaiting")
            /\ \E i \in 1..2 : runs[w].subs[i].status = "failed")
               ~> (IsRun(w, "sum_squares", "failed") /\ runs[w].result = <<>>)

C7_Witness ==
    \E w \in Workers :
        /\ IsRun(w, "sum_squares", "failed")
        /\ runs[w].subs[1].status = "done"
        /\ runs[w].subs[2].status = "failed"
        /\ runs[w].result = <<>>

(* C8: task steps leave the application object, the registered tasks and   *)
(* the logging configuration unchanged, and two completed invocations of    *)
(* the same task with the same arguments have the same result               *)
C8_NoOwnedState ==
    /\ [][runs' # runs =>
              /\ app' = app
              /\ tasks' = tasks
              /\ logging' = logging
              /\ serving' = serving]_vars
    /\ [](\A v, w \in Workers :
              /\ runs[v].status = "done" /\ runs[w].status = "done"
              /\ runs[v].task = runs[w].task /\ runs[v].args = runs[w].args
              => runs[v].result = runs[w].result)
    /\ [](serving => /\ app.constructed
                     /\ app.default_plan = "standard"
                     /\ app.default_timeout = 300
                     /\ app.default_retry.max_retries = 3)

C8_Witness ==
    /\ IsRun("w1", "hello", "done") /\ IsRun("w2", "hello", "done")
    /\ runs["w1"].args = <<"world">> /\ runs["w2"].args = <<"world">>
    /\ runs["w1"].result = runs["w2"].result
    /\ app.default_plan = "standard"
    /\ Len(tasks) = 4

(* C9: the application object exists before the first registration, all    *)
(* four registrations precede serving, exactly ping, hello, square and      *)
(* sum_squares are registered when serving starts and none is added later   *)
C9_RegisteredBeforeServing ==
    /\ [](tasks # <<>> => app.constructed)
    /\ [](serving => tasks = <<"ping", "hello", "square", "sum_squares">>)
    /\ [][serving => tasks' = tasks]_vars
    /\ [](\A w \in Workers : runs[w].status # "idle" => serving)

C9_Witness ==
    /\ serving
    /\ tasks = <<"ping", "hello", "square", "sum_squares">>
    /\ invoked = MaxInvocations

(* C10: a sum_squares invocation issues exactly two sub-invocations, of     *)
(* square(a) then square(b); once both have completed the join can resolve  *)
(* whatever else is going on, and the invocation then completes             *)
C10_TwoSubsThenCompletes ==
    /\ [](\A w \in Workers :
              runs[w].task = "sum_squares" =>
                  /\ Len(runs[w].subs) <= 2
                  /\ runs[w].status # "running" =>
                         /\ Len(runs[w].subs) = 2
                         /\ runs[w].subs[1].arg = runs[w].args[1]
                         /\ runs[w].subs[2].arg = runs[w].args[2]
                  /\ (/\ runs[w].status = "awaiting"
                      /\ Len(runs[w].subs) = 2
                      /\ runs[w].subs[1].status = "done"
                      /\ runs[w].subs[2].status = "done")
                         => ENABLED SumSquaresReturn(w))
    /\ [](\A w \in Workers : runs[w].task # "sum_squares" => runs[w].subs = <<>>)
    /\ \A w \in Workers :
           (/\ IsRun(w, "sum_squares", "awaiting")
            /\ runs[w].subs[1].status = "done"
            /\ runs[w].subs[2].status = "done")
               ~> IsRun(w, "sum_squares", "done")

C10_Witness ==
    \E w \in Workers :
        /\ IsRun(w, "sum_squares", "done")
        /\ Len(runs[w].subs) = 2
        /\ runs[w].subs[1].arg = 3 /\ runs[w].subs[2].arg = 4
        /\ \E v \in Workers : v # w /\ runs[v].status = "running"

=============================================================================
